---- MODULE Spec2Model ----
(***************************************************************************)
(* Model of src/src/App.tsx: the heart particle field generator, the       *)
(* requestAnimationFrame playback loop with its beat-sound trigger, the    *)
(* click handler and the floating-text overlay.                            *)
(*                                                                         *)
(* Units.  Timestamps are integer milliseconds.  lastBeatTimeRef holds     *)
(* seconds in the code (time / 1000); the model keeps the same value in    *)
(* milliseconds, so `seconds - last >= 60 / BPM` is compared as            *)
(* BPM * (time - last) >= 60 * 1000 without rounding.  Opacity and scale   *)
(* are kept in thousandths (1 = 1000, 0.01 = 10, 0.005 = 5).               *)
(* Point coordinates are real numbers built from sin, cos, log and pow;    *)
(* they are not represented: a point keeps its size and the loop of the    *)
(* generator that pushed it.                                               *)
(***************************************************************************)
EXTENDS Integers, Sequences, FiniteSets, TLC

VARIABLES
    phase,            \* lifecycle of the component: which effects have run
    dimensions,       \* useState dimensions, <<width, height>>
    genPending,       \* a re-render with new dimensions awaits its generation effect
    framesRef,        \* framesRef.current
    rng,              \* hidden state of Math.random
    surface,          \* canvas element and its 2D context are available
    loopStarted,      \* the render effect got past its early returns
    pending,          \* ids of scheduled, not yet run, animation frame callbacks
    nextRafId,        \* next id requestAnimationFrame hands out
    animationFrameId, \* animationFrameId.current
    clock,            \* milliseconds since the time origin
    lastBeatTime,     \* lastBeatTimeRef.current, in milliseconds
    audio,            \* audioContextRef.current: "none" (null), "suspended", "running"
    isAudioStarted,   \* useState isAudioStarted
    floatingTexts,    \* useState floatingTexts
    spawned,          \* every click so far: id, click position, render ticks since
    trigTimes,        \* timestamps of the ticks that triggered the beat sound
    tick              \* what the last run of render observed and did

vars == <<phase, dimensions, genPending, framesRef, rng, surface, loopStarted,
          pending, nextRafId, animationFrameId, clock, lastBeatTime, audio,
          isAudioStarted, floatingTexts, spawned, trigTimes, tick>>

----
\* Program constants.
GENERATE_FRAMES == 20
BPM == 70
SecondsPerMinute == 60
MsPerSecond == 1000
EdgePerBase == 3
InitialWidth == 840
InitialHeight == 680
Unit == 1000
OpacityStep == 10
ScaleStep == 5

\* Bounds of the model.
NumBase == 1        \* base points (1000 in the code)
NumCenter == 1      \* center diffusion points (5000 in the code)
HaloMin == 1        \* halo points at curve = 0 (1500 in the code)
HaloSpan == 3       \* halo points added per unit of curve^2 (2000 in the code)
RandMod == 10       \* Math.random() returns k / RandMod, k in 0 .. RandMod - 1
NumSeeds == 2       \* initial states of Math.random
MaxTime == 2000     \* the clock stops here in the playback specification
MaxClicks == 1      \* clicks in the playback specification
MaxLoopTime == 900  \* the clock stops here in the lifecycle specification
MaxDecayClicks == 2 \* clicks in the overlay specification
MaxClickTime == 32  \* no click after this time in the overlay specification
MaxDecayTime == 1700 \* the clock stops here in the overlay specification

WindowSizes == {<<1280, 720>>, <<0, 0>>}   \* window.innerWidth, window.innerHeight
TickDelays == {100, 900}                    \* milliseconds between animation frames
ClickDelays == {0}                          \* milliseconds before a click is handled
ClickPoints == {<<100, 200>>}               \* e.clientX, e.clientY
LoopTickDelays == {300}
DecayWindowSizes == {<<1280, 720>>}
DecayTickDelays == {16}
DecayClickDelays == {0, 16}
DecayClickPoints == {<<100, 200>>, <<5, 3>>}

----
\* Math.random: a generator with hidden state; draw number n after state `seed`.
Rand(seed, n) == (seed + n * 7) % RandMod

\* 10000 * curve(p)^2 for p = frame / 20 * PI, where curve(p) = 2 * (2 * sin(4p)) / (2 * PI),
\* so curve(p)^2 = (4 / PI^2) * sin(PI * frame / 5)^2: 0, 0.140022, 0.366570, 0.366570, 0.140022.
CurveSqE4(frame) ==
    <<0, 1400, 3665, 3665, 1400, 0, 1400, 3665, 3665, 1400,
      0, 1400, 3665, 3665, 1400, 0, 1400, 3665, 3665, 1400>>[frame + 1]

\* haloNumber = floor(1500 + 2000 * |curve(p)|^2), with the populations scaled down.
HaloNumber(frame) == (HaloMin * 10000 + HaloSpan * CurveSqE4(frame)) \div 10000

\* size: Math.random() < 0.66 ? 1 : 2
HaloSize(r) == IF 100 * r < 66 * RandMod THEN 1 ELSE 2

\* size: Math.floor(Math.random() * 3) + 1
BaseSize(r) == (r * 3) \div RandMod + 1

\* Mutant: edge points get the size range of base points.
EdgeSizeOfThree(r) == (r * 3) \div RandMod + 1

\* size: Math.floor(Math.random() * 2) + 1
EdgeSize(r) == (r * 2) \div RandMod + 1

\* size: Math.floor(Math.random() * 2) + 1
CenterSize(r) == (r * 2) \div RandMod + 1

\* Math.random() calls before the frame loop: one per base point, two per
\* scatterInside of an edge point, an index and a scatterInside per center point.
PreambleDraws == NumBase + NumBase * EdgePerBase * 2 + NumCenter * 3

\* Calls in one pass of the frame loop: a halo point draws t, two jitters and its
\* size; every projected point draws two noises in calcPosition and its size.
FrameDraws(frame) ==
    HaloNumber(frame) * 4 + NumBase * 3 + NumBase * EdgePerBase * 3 + NumCenter * 3

RECURSIVE FrameStart(_)
FrameStart(frame) ==
    IF frame = 0 THEN PreambleDraws
    ELSE FrameStart(frame - 1) + FrameDraws(frame - 1)

\* framePoints of one pass of the frame loop: halo, base, edge, center.
FramePoints(seed, frame) ==
    LET h0 == FrameStart(frame)
        b0 == h0 + 4 * HaloNumber(frame)
        e0 == b0 + 3 * NumBase
        c0 == e0 + 3 * NumBase * EdgePerBase
    IN    [i \in 1 .. HaloNumber(frame) |->
             [kind |-> "halo", size |-> HaloSize(Rand(seed, h0 + 4 * (i - 1) + 3))]]
       \o [i \in 1 .. NumBase |->
             [kind |-> "base", size |-> BaseSize(Rand(seed, b0 + 3 * (i - 1) + 2))]]
       \o [i \in 1 .. NumBase * EdgePerBase |->
             [kind |-> "edge", size |-> EdgeSize(Rand(seed, e0 + 3 * (i - 1) + 2))]]
       \o [i \in 1 .. NumCenter |->
             [kind |-> "center", size |-> CenterSize(Rand(seed, c0 + 3 * (i - 1) + 2))]]

\* generatedFrames after the frame loop.
GeneratedFrames(seed) ==
    [f \in 1 .. GENERATE_FRAMES |-> FramePoints(seed, f - 1)]

\* Mutant: the new frames are pushed onto the array the loop reads.
StoreFramesAppended(old, generated) == old \o generated

\* framesRef.current = generatedFrames
StoreFrames(old, generated) == generated

----
\* The playback loop.

\* What render reports before it has ever run.
NoTick ==
    [ran |-> FALSE, idle |-> FALSE, time |-> 0, prevTime |-> 0, lastBeatBefore |-> 0,
     triggered |-> FALSE, audio |-> "none", oscillators |-> 0, drawn |-> -1,
     framesLen |-> 0, genPending |-> FALSE]

\* seconds - lastBeatTimeRef.current >= BEAT_INTERVAL, with BEAT_INTERVAL = 60 / BPM
BeatDue(time, last) == BPM * (time - last) >= SecondsPerMinute * MsPerSecond

\* Mutant: the last-beat time is not recorded on a trigger.
RecordBeatStale(time, last) == last

\* lastBeatTimeRef.current = seconds
RecordBeat(time, last) == time

\* Mutant: playHeartbeatSound checks only that a context exists.
PlayUnguarded(ctx) == IF ctx = "none" THEN 0 ELSE 2

\* playHeartbeatSound: the oscillators it starts (osc1 and osc2), none when the
\* context is missing or not running.
PlayHeartbeatSound(ctx) == IF ctx = "none" \/ ctx # "running" THEN 0 ELSE 2

\* beatProgress = (seconds % BEAT_INTERVAL) / BEAT_INTERVAL, as the numerator over
\* 60 * 1000: (time / 1000) % (60 / BPM) = ((BPM * time) % 60000) / (BPM * 1000).
BeatProgressNum(time) == (BPM * time) % (SecondsPerMinute * MsPerSecond)

\* frameIndex = Math.floor(beatProgress * GENERATE_FRAMES)
FrameIndex(time) ==
    (BeatProgressNum(time) * GENERATE_FRAMES) \div (SecondsPerMinute * MsPerSecond)

\* Mutant: the frame is selected by the time since the last triggered beat.
DrawnFrameSinceBeat(time) == FrameIndex(time - lastBeatTime) % GENERATE_FRAMES

\* framesRef.current[frameIndex % GENERATE_FRAMES]: the position read, from 0.
DrawnFrame(time) == FrameIndex(time) % GENERATE_FRAMES

\* t => ({ ...t, y: t.y - 1, opacity: t.opacity - 0.01, scale: t.scale + 0.005 })
DecayText(t) ==
    [t EXCEPT !.y = t.y - 1, !.opacity = t.opacity - OpacityStep,
              !.scale = t.scale + ScaleStep]

\* Mutant: a text with opacity 0 is kept.
AliveAtZero(t) == t.opacity >= 0

\* t => t.opacity > 0
Alive(t) == t.opacity > 0

\* prev.map(...).filter(...)
UpdateTexts(prev) ==
    SelectSeq([i \in 1 .. Len(prev) |-> DecayText(prev[i])], Alive)

\* Mutant: render re-arms itself without storing the new id.
RescheduledIdDropped(old, new) == old

\* animationFrameId.current = requestAnimationFrame(render), at the end of render
RescheduledId(old, new) == new

\* One animation frame: the scheduler runs a pending callback d milliseconds after
\* the previous event; render runs whole and re-arms itself.
Tick(d, maxTime) ==
    /\ pending # {}
    /\ clock + d <= maxTime
    /\ \E id \in pending :
        LET time == clock + d
            idle == Len(framesRef) = 0
            due == BeatDue(time, lastBeatTime)
        IN  /\ clock' = time
            /\ pending' = (pending \ {id}) \cup {nextRafId}
            /\ nextRafId' = nextRafId + 1
            /\ animationFrameId' = RescheduledId(animationFrameId, nextRafId)
            /\ lastBeatTime' =
                 IF ~idle /\ due THEN RecordBeat(time, lastBeatTime) ELSE lastBeatTime
            /\ trigTimes' = IF ~idle /\ due THEN Append(trigTimes, time) ELSE trigTimes
            /\ floatingTexts' = IF idle THEN floatingTexts ELSE UpdateTexts(floatingTexts)
            /\ spawned' =
                 IF idle THEN spawned
                 ELSE [i \in 1 .. Len(spawned) |->
                         [spawned[i] EXCEPT !.age = spawned[i].age + 1]]
            /\ tick' =
                 [ran |-> TRUE, idle |-> idle, time |-> time, prevTime |-> tick.time,
                  lastBeatBefore |-> lastBeatTime,
                  triggered |-> ~idle /\ due,
                  audio |-> audio,
                  oscillators |-> IF ~idle /\ due THEN PlayHeartbeatSound(audio) ELSE 0,
                  drawn |-> IF idle THEN -1 ELSE DrawnFrame(time),
                  framesLen |-> Len(framesRef),
                  genPending |-> genPending]
    /\ UNCHANGED <<phase, dimensions, genPending, framesRef, rng, surface,
                   loopStarted, audio, isAudioStarted>>

----
\* Effects, in the order React runs them after the first render.

\* First effect: addEventListener('resize') and updateDimensions(), whose
\* setDimensions takes effect in the next render.
MountResizeEffect(w, h) ==
    /\ phase = "constructed"
    /\ phase' = "listening"
    /\ dimensions' = <<w, h>>
    /\ genPending' = TRUE
    /\ UNCHANGED <<framesRef, rng, surface, loopStarted, pending, nextRafId,
                   animationFrameId, clock, lastBeatTime, audio, isAudioStarted,
                   floatingTexts, spawned, trigTimes, tick>>

\* Body of the generation effect: runs to completion, then assigns framesRef.
Generate ==
    /\ framesRef' = StoreFrames(framesRef, GeneratedFrames(rng))
    /\ rng' = Rand(rng, FrameStart(GENERATE_FRAMES))

\* Second effect, first run: generation for the initial dimensions.
MountGenEffect ==
    /\ phase = "listening"
    /\ phase' = "generated"
    /\ Generate
    /\ UNCHANGED <<dimensions, genPending, surface, loopStarted, pending, nextRafId,
                   animationFrameId, clock, lastBeatTime, audio, isAudioStarted,
                   floatingTexts, spawned, trigTimes, tick>>

\* Mutant: without a surface the effect still schedules a tick.
MountRenderEffectAlwaysScheduling ==
    /\ phase = "generated"
    /\ phase' = "mounted"
    /\ loopStarted' = surface
    /\ pending' = pending \cup {nextRafId}
    /\ animationFrameId' = nextRafId
    /\ nextRafId' = nextRafId + 1
    /\ UNCHANGED <<dimensions, genPending, framesRef, rng, surface, clock,
                   lastBeatTime, audio, isAudioStarted, floatingTexts, spawned,
                   trigTimes, tick>>

\* Third effect: returns early without a canvas or a 2D context, otherwise
\* schedules the first render and its cleanup is registered.
MountRenderEffect ==
    /\ phase = "generated"
    /\ phase' = "mounted"
    /\ IF surface
       THEN /\ loopStarted' = TRUE
            /\ pending' = pending \cup {nextRafId}
            /\ animationFrameId' = nextRafId
            /\ nextRafId' = nextRafId + 1
       ELSE UNCHANGED <<loopStarted, pending, animationFrameId, nextRafId>>
    /\ UNCHANGED <<dimensions, genPending, framesRef, rng, surface, clock,
                   lastBeatTime, audio, isAudioStarted, floatingTexts, spawned,
                   trigTimes, tick>>

\* Second effect, later runs: dimensions changed in the last render.
GenEffect ==
    /\ phase = "mounted"
    /\ genPending
    /\ genPending' = FALSE
    /\ Generate
    /\ UNCHANGED <<phase, dimensions, surface, loopStarted, pending, nextRafId,
                   animationFrameId, clock, lastBeatTime, audio, isAudioStarted,
                   floatingTexts, spawned, trigTimes, tick>>

\* updateDimensions on a resize event.
Resize(w, h) ==
    /\ phase = "mounted"
    /\ dimensions' = <<w, h>>
    /\ genPending' = TRUE
    /\ UNCHANGED <<phase, framesRef, rng, surface, loopStarted, pending, nextRafId,
                   animationFrameId, clock, lastBeatTime, audio, isAudioStarted,
                   floatingTexts, spawned, trigTimes, tick>>

\* initAudio: a new context starts suspended or running; a suspended one is resumed,
\* which completes later.
InitAudio(ctx, created) ==
    IF ctx = "none" THEN [ctx |-> created, started |-> TRUE]
    ELSE IF ctx = "suspended" THEN [ctx |-> ctx, started |-> TRUE]
    ELSE [ctx |-> ctx, started |-> isAudioStarted]

\* newText of handleCanvasClick; now is Date.now().
NewText(now, x, y) == [id |-> now, x |-> x, y |-> y, opacity |-> Unit, scale |-> Unit]

\* setFloatingTexts(prev => [...prev, newText])
AddText(prev, newText) == Append(prev, newText)

\* handleCanvasClick, d milliseconds after the previous event.
Click(x, y, d, created, maxClicks, maxTime) ==
    /\ phase = "mounted"
    /\ Len(spawned) < maxClicks
    /\ clock + d <= maxTime
    /\ clock' = clock + d
    /\ audio' = InitAudio(audio, created).ctx
    /\ isAudioStarted' = InitAudio(audio, created).started
    /\ floatingTexts' = AddText(floatingTexts, NewText(clock + d, x, y))
    /\ spawned' = Append(spawned, [id |-> clock + d, x |-> x, y |-> y, age |-> 0])
    /\ UNCHANGED <<phase, dimensions, genPending, framesRef, rng, surface,
                   loopStarted, pending, nextRafId, animationFrameId, lastBeatTime,
                   trigTimes, tick>>

\* The host lets the context run (a resume completes, autoplay is allowed).
AudioResumed ==
    /\ audio = "suspended"
    /\ audio' = "running"
    /\ UNCHANGED <<phase, dimensions, genPending, framesRef, rng, surface,
                   loopStarted, pending, nextRafId, animationFrameId, clock,
                   lastBeatTime, isAudioStarted, floatingTexts, spawned, trigTimes,
                   tick>>

\* The host suspends the context (an interruption).
AudioSuspended ==
    /\ audio = "running"
    /\ audio' = "suspended"
    /\ UNCHANGED <<phase, dimensions, genPending, framesRef, rng, surface,
                   loopStarted, pending, nextRafId, animationFrameId, clock,
                   lastBeatTime, isAudioStarted, floatingTexts, spawned, trigTimes,
                   tick>>

\* A 2D context becomes obtainable after the render effect has run.
SurfaceAppears ==
    /\ phase = "mounted"
    /\ ~surface
    /\ surface' = TRUE
    /\ UNCHANGED <<phase, dimensions, genPending, framesRef, rng, loopStarted,
                   pending, nextRafId, animationFrameId, clock, lastBeatTime, audio,
                   isAudioStarted, floatingTexts, spawned, trigTimes, tick>>

\* cancelAnimationFrame(animationFrameId.current)
CancelFrame(scheduled, id) == scheduled \ {id}

\* Unmount: the cleanup of the render effect, if the effect returned one.
Unmount ==
    /\ phase = "mounted"
    /\ phase' = "unmounted"
    /\ pending' = IF loopStarted THEN CancelFrame(pending, animationFrameId) ELSE pending
    /\ UNCHANGED <<dimensions, genPending, framesRef, rng, surface, loopStarted,
                   nextRafId, animationFrameId, clock, lastBeatTime, audio,
                   isAudioStarted, floatingTexts, spawned, trigTimes, tick>>

----
\* The state after construction: the initial values of the refs and of useState.
InitFrom(seeds) ==
    /\ phase = "constructed"
    /\ dimensions = <<InitialWidth, InitialHeight>>
    /\ genPending = FALSE
    /\ framesRef = <<>>
    /\ rng \in seeds
    /\ surface \in BOOLEAN
    /\ loopStarted = FALSE
    /\ pending = {}
    /\ nextRafId = 1
    /\ animationFrameId = 0
    /\ clock = 0
    /\ lastBeatTime = 0
    /\ audio = "none"
    /\ isAudioStarted = FALSE
    /\ floatingTexts = <<>>
    /\ spawned = <<>>
    /\ trigTimes = <<>>
    /\ tick = NoTick

\* Playback: animation frames at two rates, one click to start the audio, the host
\* resuming and suspending the audio context.
Init == InitFrom({0})

Next ==
    \/ \E s \in WindowSizes : MountResizeEffect(s[1], s[2])
    \/ MountGenEffect
    \/ MountRenderEffect
    \/ GenEffect
    \/ \E d \in TickDelays : Tick(d, MaxTime)
    \/ \E p \in ClickPoints, d \in ClickDelays, c \in {"suspended", "running"} :
          Click(p[1], p[2], d, c, MaxClicks, MaxTime)
    \/ AudioResumed
    \/ AudioSuspended

Spec == Init /\ [][Next]_vars

\* The loop's lifecycle: generation and regeneration on resize, a drawing surface
\* that may be missing when the loop starts, unmount.
LoopInit == InitFrom(0 .. NumSeeds - 1)

LoopNext ==
    \/ \E s \in WindowSizes : MountResizeEffect(s[1], s[2])
    \/ MountGenEffect
    \/ MountRenderEffect
    \/ GenEffect
    \/ \E s \in WindowSizes : Resize(s[1], s[2])
    \/ \E d \in LoopTickDelays : Tick(d, MaxLoopTime)
    \/ SurfaceAppears
    \/ Unmount

LoopSpec == LoopInit /\ [][LoopNext]_vars

\* The overlay: clicks in the first MaxClickTime milliseconds, then animation frames
\* 16 ms apart until the texts have faded out.
DecayInit == InitFrom({0})

DecayNext ==
    \/ \E s \in DecayWindowSizes : MountResizeEffect(s[1], s[2])
    \/ MountGenEffect
    \/ MountRenderEffect
    \/ GenEffect
    \/ \E d \in DecayTickDelays : Tick(d, MaxDecayTime)
    \/ \E p \in DecayClickPoints, d \in DecayClickDelays :
          Click(p[1], p[2], d, "running", MaxDecayClicks, MaxClickTime)

DecaySpec == DecayInit /\ [][DecayNext]_vars

----
\* Properties.

BeatIntervalNum == SecondsPerMinute * MsPerSecond

\* C1: the beat sound is triggered only on a tick whose timestamp is at least one
\* beat interval after the recorded last-beat time, that tick's timestamp becomes the
\* last-beat time, and two consecutive triggers are at least one beat interval apart.
BeatAtMostOncePerInterval ==
    /\ \A i \in 1 .. Len(trigTimes) - 1 :
          BPM * (trigTimes[i + 1] - trigTimes[i]) >= BeatIntervalNum
    /\ tick.triggered =>
          /\ BPM * (tick.time - tick.lastBeatBefore) >= BeatIntervalNum
          /\ lastBeatTime = tick.time
          /\ trigTimes # <<>> /\ trigTimes[Len(trigTimes)] = tick.time
    /\ trigTimes # <<>> => lastBeatTime = trigTimes[Len(trigTimes)]

\* Two triggers have happened.
TwoBeatsTriggered == Len(trigTimes) >= 2

\* C2: at every trigger the beat boundary it belongs to (the last wrap of the beat
\* phase to 0) lies within the last tick interval: the time since the boundary is at
\* most the time since the previous tick, so the delay does not grow from beat to beat.
SoundInPhaseWithFrames ==
    tick.triggered =>
        (BPM * tick.time) % BeatIntervalNum <= BPM * (tick.time - tick.prevTime)

\* C3: the frame drawn is the index k in 0 .. 19 with k / 20 <= beat phase < (k + 1) / 20,
\* the beat phase being ((time / 1000) mod (60 / 70)) / (60 / 70); it is an index of the
\* frame sequence and depends on nothing but the tick's timestamp.
FrameFromTimeAlone ==
    (tick.ran /\ ~tick.idle) =>
        LET phase20 == ((70 * tick.time) % 60000) * 20
        IN  /\ tick.drawn \in 0 .. 19
            /\ tick.drawn + 1 \in DOMAIN framesRef
            /\ tick.drawn * 60000 <= phase20
            /\ phase20 < (tick.drawn + 1) * 60000

\* A frame in the second half of the cycle is drawn after a beat has been recorded.
LateFrameAfterBeat == tick.ran /\ tick.drawn >= 10 /\ lastBeatTime > 0

\* C5: a trigger while the audio context is missing or not running starts no
\* oscillator and still records the tick as the last beat; oscillators are started
\* only in pairs, only on a tick that meets the beat condition with a running context.
SkippedBeatNotReplayed ==
    /\ (tick.triggered /\ tick.audio # "running") =>
          (tick.oscillators = 0 /\ lastBeatTime = tick.time)
    /\ tick.oscillators \in {0, 2}
    /\ tick.oscillators = 2 =>
          /\ tick.triggered
          /\ tick.audio = "running"
          /\ BPM * (tick.time - tick.lastBeatBefore) >= BeatIntervalNum

\* A beat was skipped with a suspended context, which is running now.
SkippedThenRunning ==
    tick.triggered /\ tick.audio = "suspended" /\ tick.oscillators = 0 /\ audio = "running"

\* C4: the overlay list holds, in click order, exactly the clicks fewer than 100 render
\* ticks old, each with its id and x, y = y0 - k, opacity = 1 - 0.01 k and
\* scale = 1 + 0.005 k after k ticks.
ExpectedText(s) ==
    [id |-> s.id, x |-> s.x, y |-> s.y - s.age,
     opacity |-> 1000 - 10 * s.age, scale |-> 1000 + 5 * s.age]

YoungerThan100(s) == s.age < 100

TextLifecycle ==
    LET shown == SelectSeq(spawned, YoungerThan100)
    IN  floatingTexts = [i \in 1 .. Len(shown) |-> ExpectedText(shown[i])]

\* One text has been removed at its 100th tick while a younger one is still shown.
OneTextGoneOneShown ==
    /\ Len(spawned) = 2
    /\ spawned[1].age = 100
    /\ Len(floatingTexts) = 1

\* C10: the texts in the overlay list have pairwise distinct ids.
DistinctTextIds ==
    \A i, j \in 1 .. Len(floatingTexts) :
        i # j => floatingTexts[i].id # floatingTexts[j].id

\* C6, as stated: when the surface was absent as the render effect ran, a tick stays
\* scheduled.
TickScheduledWithoutSurface ==
    (phase = "mounted" /\ ~loopStarted) => pending # {}

\* C6, amended: when the surface was absent as the render effect ran, no tick is
\* scheduled and none has run, also after the surface has become available.
NoLoopWithoutSurface ==
    (phase \in {"mounted", "unmounted"} /\ ~loopStarted) =>
        (pending = {} /\ ~tick.ran /\ animationFrameId = 0)

\* The surface was absent at the start of the loop and is available now.
SurfaceCameLate == phase = "mounted" /\ ~loopStarted /\ surface

\* C7: a stored frame sequence has exactly 20 frames, each a non-empty list of points
\* with size in {1, 2, 3}, and size in {1, 2} for halo, edge and center points.
FramesWellFormed ==
    framesRef # <<>> =>
        /\ Len(framesRef) = 20
        /\ \A f \in 1 .. Len(framesRef) :
              /\ Len(framesRef[f]) > 0
              /\ \A i \in 1 .. Len(framesRef[f]) :
                    /\ framesRef[f][i].size \in {1, 2, 3}
                    /\ framesRef[f][i].kind \in {"halo", "edge", "center"} =>
                          framesRef[f][i].size \in {1, 2}

\* Frames generated for a 0 x 0 window hold a base point of size 3 and a halo point
\* of size 2.
DegenerateWindowFrames ==
    /\ dimensions = <<0, 0>>
    /\ ~genPending
    /\ \E f \in 1 .. Len(framesRef) : \E i \in 1 .. Len(framesRef[f]) :
          framesRef[f][i] = [kind |-> "base", size |-> 3]
    /\ \E f \in 1 .. Len(framesRef) : \E i \in 1 .. Len(framesRef[f]) :
          framesRef[f][i] = [kind |-> "halo", size |-> 2]

\* C8: at most one callback is scheduled and animationFrameId holds its id; after the
\* cleanup of the render effect none is scheduled, so no tick runs or is re-armed.
CancelOnTeardown ==
    /\ pending \subseteq {animationFrameId}
    /\ phase = "unmounted" => pending = {}

\* The loop was unmounted after it had drawn.
UnmountedAfterDrawing == phase = "unmounted" /\ loopStarted /\ tick.ran /\ ~tick.idle

\* C9: a tick is idle exactly when the frame sequence is empty, and an idle tick
\* draws nothing, triggers nothing and leaves the last-beat time and the texts alone;
\* the frame sequence is empty or holds 20 frames, and once it holds 20 it always does.
TickStep == nextRafId' # nextRafId /\ phase' = phase

IdleOnlyWhileEmpty ==
    [][ /\ Len(framesRef') \in {0, 20}
        /\ Len(framesRef) = 20 => Len(framesRef') = 20
        /\ TickStep =>
              /\ tick'.idle <=> Len(framesRef) = 0
              /\ tick'.idle =>
                    /\ tick'.drawn = -1 /\ ~tick'.triggered /\ tick'.oscillators = 0
                    /\ lastBeatTime' = lastBeatTime
                    /\ floatingTexts' = floatingTexts
              /\ ~tick'.idle => (tick'.framesLen = 20 /\ tick'.drawn \in 0 .. 19)
      ]_vars

\* A tick drew a frame between a resize and the regeneration it causes, after an
\* earlier regeneration.
TickDuringRegeneration ==
    /\ tick.ran /\ ~tick.idle /\ tick.genPending /\ tick.prevTime > 0
    /\ genPending
    /\ dimensions = <<0, 0>>

====
